---- MODULE Spec2Model ----
(***************************************************************************)
(* A model of the dura archive storage engine (duralib): the archive       *)
(* directory, its bands, the blocks of a band, and the writer objects      *)
(* (BandWriter, BlockWriter) that fill them.                               *)
(*                                                                         *)
(* Names on disk are sequences of one-character strings, so that the       *)
(* formatting ('%04d', '%06d', str) and parsing (int, split, startswith,   *)
(* endswith) of band and block numbers are computed as the code computes   *)
(* them.  A file that may be absent is a set holding at most one value;    *)
(* an optional protobuf field is modelled the same way.  Wall-clock times  *)
(* and the hostname of the band head and tail are left out of the records. *)
(***************************************************************************)
EXTENDS Integers, Sequences, FiniteSets, TLC

\* ------------------------------------------------------------------ bounds

\* Largest number of band directories the archive is filled with.
MaxBands == 11
\* Largest number of blocks created in one band.
MaxBlocks == 2
\* Largest number of store_file calls made in one run.
MaxStores == 3

\* ----------------------------------------------------------- characters

Digits == <<"0", "1", "2", "3", "4", "5", "6", "7", "8", "9">>

IsDigit(c) == \E d \in 1..10 : Digits[d] = c

DigitVal(c) == (CHOOSE d \in 1..10 : Digits[d] = c) - 1

\* Python str(n) of a non-negative integer: decimal, no padding.
RECURSIVE Str(_)
Str(n) == IF n < 10 THEN <<Digits[n + 1]>>
          ELSE Str(n \div 10) \o <<Digits[(n % 10) + 1]>>

Zeros(k) == [i \in 1..k |-> "0"]

\* Python '%0<w>d' % n: str(n) padded on the left with zeros to width w,
\* longer numbers are not cut.
ZeroPad(w, n) == LET s == Str(n)
                 IN IF Len(s) >= w THEN s ELSE Zeros(w - Len(s)) \o s

\* Python int(s) succeeds on a non-empty run of decimal digits.
IntOk(s) == Len(s) > 0 /\ \A i \in 1..Len(s) : IsDigit(s[i])

RECURSIVE IntVal(_)
IntVal(s) == IF Len(s) = 0 THEN 0
             ELSE 10 * IntVal(SubSeq(s, 1, Len(s) - 1)) + DigitVal(s[Len(s)])

StartsWith(s, p) == Len(s) >= Len(p) /\ SubSeq(s, 1, Len(p)) = p

EndsWith(s, p) == Len(s) >= Len(p) /\ SubSeq(s, Len(s) - Len(p) + 1, Len(s)) = p

\* Python s.split('-'): the fields between hyphens.
RECURSIVE SplitHyphen(_)
SplitHyphen(s) ==
    IF \A i \in 1..Len(s) : s[i] # "-" THEN <<s>>
    ELSE LET i == CHOOSE j \in 1..Len(s) :
                      s[j] = "-" /\ \A k \in 1..(j - 1) : s[k] # "-"
         IN <<SubSeq(s, 1, i - 1)>> \o SplitHyphen(SubSeq(s, i + 1, Len(s)))

\* Python cmp of two lists of integers: lexicographic, a proper prefix first.
RECURSIVE CmpIntLists(_, _)
CmpIntLists(a, b) ==
    IF Len(a) = 0 /\ Len(b) = 0 THEN 0
    ELSE IF Len(a) = 0 THEN -1
    ELSE IF Len(b) = 0 THEN 1
    ELSE IF a[1] < b[1] THEN -1
    ELSE IF a[1] > b[1] THEN 1
    ELSE CmpIntLists(Tail(a), Tail(b))

\* -------------------------------------------------------- band numbers

name_prefix == <<"b">>

head_name == <<"B", "A", "N", "D", "-", "H", "E", "A", "D">>

tail_name == <<"B", "A", "N", "D", "-", "T", "A", "I", "L">>

ARCHIVE_HEADER_NAME == <<"D", "U", "R", "A", "-", "A", "R", "C", "H", "I", "V", "E">>

canonicalize_band_number(band_number) == ZeroPad(4, IntVal(band_number))

\* A comparison that looks at the first field of each number only.
cmp_band_numbers_first_field(n1, n2) ==
    CmpIntLists(<<IntVal(SplitHyphen(n1)[1])>>, <<IntVal(SplitHyphen(n2)[1])>>)

cmp_band_numbers(n1, n2) ==
    LET f1 == SplitHyphen(n1)
        f2 == SplitHyphen(n2)
        n1l == [i \in 1..Len(f1) |-> IntVal(f1[i])]
        n2l == [i \in 1..Len(f2) |-> IntVal(f2[i])]
    IN CmpIntLists(n1l, n2l)

\* The fields of a number string all parse as integers.
NumberOk(n) == \A i \in 1..Len(SplitHyphen(n)) : IntOk(SplitHyphen(n)[i])

\* A sort that puts the element that compares highest first.
RECURSIVE SortNumbers_descending(_)
SortNumbers_descending(S) ==
    IF S = {} THEN <<>>
    ELSE LET m == CHOOSE x \in S : \A y \in S : cmp_band_numbers(x, y) >= 0
         IN <<m>> \o SortNumbers_descending(S \ {m})

\* list.sort(cmp=cmp_band_numbers) of the names in a set: the element that
\* compares lowest comes first.
RECURSIVE SortNumbers(_)
SortNumbers(S) ==
    IF S = {} THEN <<>>
    ELSE LET m == CHOOSE x \in S : \A y \in S : cmp_band_numbers(x, y) <= 0
         IN <<m>> \o SortNumbers(S \ {m})

match_band_name(filename) ==
    IF StartsWith(filename, name_prefix)
    THEN {SubSeq(filename, Len(name_prefix) + 1, Len(filename))}
    ELSE {}

\* -------------------------------------------------------------- blocks

UpperCase == <<"A", "B", "C", "D", "E", "H", "I", "L", "N", "R", "T", "U", "V">>

LowerCase == <<"a", "b", "c", "d", "e", "h", "i", "l", "n", "r", "t", "u", "v">>

\* Python str.lower(), on the letters that occur in the names of an archive.
LowerChar(c) == IF \E k \in 1..Len(UpperCase) : UpperCase[k] = c
                THEN LowerCase[CHOOSE k \in 1..Len(UpperCase) : UpperCase[k] = c]
                ELSE c

Lower(s) == [i \in 1..Len(s) |-> LowerChar(s[i])]

match_block_index_name(filename) ==
    LET lowered == Lower(filename)
    IN IF StartsWith(lowered, <<"d">>) /\ EndsWith(lowered, <<".", "i">>)
       THEN {SubSeq(lowered, 2, Len(lowered) - 2)}
       ELSE {}

data_file_name(block_number) == <<"d">> \o block_number \o <<".", "d">>

index_file_name(block_number) == <<"d">> \o block_number \o <<".", "i">>

\* The digest of a byte string: SHA-1 taken as an injective function.
Sha(bytes) == [sha1_of |-> bytes]

REGULAR == 1
DIRECTORY == 2
SYMLINK == 3

\* An optional value: the empty set when unset, a singleton when set.
Unset == {}
Value(opt) == CHOOSE v \in opt : TRUE

\* Reading an optional integer field of a record: 0 when the field is unset.
IntField(opt) == IF opt = {} THEN 0 ELSE Value(opt)

\* A new, empty BlockIndex message.
EmptyBlockIndex == [file |-> <<>>, data_sha1 |-> Unset, data_length |-> Unset]

\* A file object that is not open.
NoHandle == [pos |-> 0, buf |-> <<>>, closed |-> TRUE]

\* A band directory right after os.mkdir.
EmptyDir == [head |-> {}, tail |-> {}, data |-> << >>, index |-> << >>]

\* ---------------------------------------------------------- archive header

\* "dura backup archive", as byte values.
HEADER_MAGIC ==
    <<100, 117, 114, 97, 32, 98, 97, 99, 107, 117, 112, 32,
      97, 114, 99, 104, 105, 118, 101>>

\* The paths archives are created at and opened from.
ArchivePaths == {<<"a">>, <<"t">>}

\* The path of the archive that bands are made in.
archive_path == <<"a">>

\* Archive.__init__: os.path.join(self.path, ARCHIVE_HEADER_NAME)
header_path(path) == path \o <<"/">> \o ARCHIVE_HEADER_NAME

\* ArchiveHeader.SerializeToString: the magic string as field 1,
\* length-delimited (tag byte 10, length byte, the bytes).
SerializeHeader(magic) == <<10, Len(magic)>> \o magic

\* Index of the last byte of the varint that starts at bytes[i]; 0 if the
\* bytes end before the varint does.
RECURSIVE VarintEnd(_, _)
VarintEnd(bytes, i) ==
    IF i > Len(bytes) THEN 0
    ELSE IF bytes[i] < 128 THEN i
    ELSE VarintEnd(bytes, i + 1)

\* ArchiveHeader.ParseFromString from byte i on, magic being the value read
\* so far: fields of other numbers are skipped, field 1 sets magic, and
\* malformed framing is a DecodeError.
RECURSIVE ParseFields(_, _, _)
ParseFields(bytes, i, magic) ==
    IF i > Len(bytes) THEN [ok |-> TRUE, magic |-> magic]
    ELSE LET field == bytes[i] \div 8
             wire == bytes[i] % 8
             DecodeError == [ok |-> FALSE, magic |-> <<>>]
         IN IF bytes[i] >= 128 \/ field = 0 THEN DecodeError
            ELSE IF wire = 0
            THEN IF VarintEnd(bytes, i + 1) = 0 THEN DecodeError
                 ELSE ParseFields(bytes, VarintEnd(bytes, i + 1) + 1, magic)
            ELSE IF wire = 1
            THEN IF i + 8 > Len(bytes) THEN DecodeError
                 ELSE ParseFields(bytes, i + 9, magic)
            ELSE IF wire = 5
            THEN IF i + 4 > Len(bytes) THEN DecodeError
                 ELSE ParseFields(bytes, i + 5, magic)
            ELSE IF wire = 2
            THEN IF i + 1 > Len(bytes) \/ bytes[i + 1] >= 128
                    \/ i + 1 + bytes[i + 1] > Len(bytes)
                 THEN DecodeError
                 ELSE ParseFields(bytes, i + 2 + bytes[i + 1],
                         IF field = 1
                         THEN SubSeq(bytes, i + 2, i + 1 + bytes[i + 1])
                         ELSE magic)
            ELSE DecodeError

\* header.ParseFromString(header_bytes)
ParseHeader(bytes) == ParseFields(bytes, 1, <<>>)

\* _make_archive_header_bytestring
make_archive_header_bytestring == SerializeHeader(HEADER_MAGIC)

\* A regular file of the given bytes; readable is false after chmod 0.
FileOf(bytes) == [bytes |-> bytes, readable |-> TRUE]

\* The archive path before anything is made there.
NoArchive == [exists |-> FALSE, header |-> {}]

\* The archive directory as Archive.create leaves it.
CreatedArchive ==
    [exists |-> TRUE, header |-> {FileOf(make_archive_header_bytestring)}]

\* ------------------------------------------------------------------ state

VARIABLES
    bands,      \* the archive directory: band number in the directory name |-> band directory
    calls,      \* number of create_band() calls that have returned
    bw,         \* the BandWriter object in use
    blk,        \* the BlockWriter objects in use
    stored,     \* number of store_file() calls made
    root,       \* archive path |-> what is on disk there: the directory and its header file
    last        \* the last call made and how it ended

vars == <<bands, calls, bw, blk, stored, root, last>>

BlockWriterIds == {1, 2}

NoBandWriter == [made |-> FALSE, band_number |-> <<>>, open |-> FALSE]

NoBlockWriter ==
    [made |-> FALSE, band |-> <<>>, block_number |-> <<>>, open |-> FALSE,
     file_count |-> 0, data_file_position |-> 0,
     block_index |-> EmptyBlockIndex, data_file |-> NoHandle, data_sha |-> <<>>]

Outcome(op, err) == [op |-> op, err |-> err]

\* os.listdir of the archive directory.
ArchiveListDir ==
    {ARCHIVE_HEADER_NAME} \cup {name_prefix \o b : b \in DOMAIN bands}

\* os.listdir of a band directory.
BandListDir(dir) ==
    (IF dir.head # {} THEN {head_name} ELSE {})
    \cup (IF dir.tail # {} THEN {tail_name} ELSE {})
    \cup {data_file_name(n) : n \in DOMAIN dir.data}
    \cup {index_file_name(n) : n \in DOMAIN dir.index}

\* Archive.list_bands: the names that match, sorted as band numbers.
list_bands ==
    SortNumbers(UNION {match_band_name(name) : name \in ArchiveListDir})

\* list_bands raises ValueError when a matching name is not a number.
list_bands_ok ==
    \A n \in UNION {match_band_name(name) : name \in ArchiveListDir} : NumberOk(n)

\* Band.list_blocks on a band directory.
list_blocks(dir) ==
    SortNumbers(UNION {match_block_index_name(name) : name \in BandListDir(dir)})

\* Band.next_block_number on a band directory.
next_block_number(dir) ==
    LET existing_blocks == list_blocks(dir)
    IN IF Len(existing_blocks) = 0 THEN ZeroPad(6, 0)
       ELSE ZeroPad(6, IntVal(existing_blocks[Len(existing_blocks)]) + 1)

\* A create_band that skips a number: the highest existing number plus two.
next_band_number_skipping ==
    LET existing_bands == list_bands
    IN IF Len(existing_bands) = 0 THEN 0
       ELSE LET ints == {IntVal(existing_bands[i]) : i \in 1..Len(existing_bands)}
            IN (CHOOSE m \in ints : \A x \in ints : x <= m) + 2

\* A numbering that starts at 1 in an empty archive.
next_band_number_from_one ==
    LET existing_bands == list_bands
    IN IF Len(existing_bands) = 0 THEN 1
       ELSE LET ints == {IntVal(existing_bands[i]) : i \in 1..Len(existing_bands)}
            IN (CHOOSE m \in ints : \A x \in ints : x <= m) + 1

\* A numbering that gives the highest band's number again when that band
\* has no BAND-TAIL.
next_band_number_reclaiming ==
    LET existing_bands == list_bands
    IN IF Len(existing_bands) = 0 THEN 0
       ELSE LET ints == {IntVal(existing_bands[i]) : i \in 1..Len(existing_bands)}
                top == CHOOSE m \in ints : \A x \in ints : x <= m
            IN IF bands[ZeroPad(4, top)].tail = {} THEN top ELSE top + 1

\* The number create_band gives the next band.
next_band_number ==
    LET existing_bands == list_bands
    IN IF Len(existing_bands) = 0 THEN 0
       ELSE LET ints == {IntVal(existing_bands[i]) : i \in 1..Len(existing_bands)}
            IN (CHOOSE m \in ints : \A x \in ints : x <= m) + 1

Init ==
    /\ bands = << >>
    /\ calls = 0
    /\ bw = NoBandWriter
    /\ blk = [w \in BlockWriterIds |-> NoBlockWriter]
    /\ stored = 0
    /\ root = [path \in ArchivePaths |->
                  IF path = archive_path THEN CreatedArchive ELSE NoArchive]
    /\ last = Outcome("create", "none")

\* ---------------------------------------------------------------- archive

\* Band.create_directory: make the band directory; it must not exist.
create_directory(band_number) ==
    IF band_number \in DOMAIN bands
    THEN /\ last' = Outcome("create_band", "OSError")
         /\ UNCHANGED <<bands, calls>>
    ELSE /\ bands' = [b \in DOMAIN bands \cup {band_number} |->
                        IF b = band_number THEN EmptyDir ELSE bands[b]]
         /\ calls' = calls + 1
         /\ last' = Outcome("create_band", "none")

\* A create_band that allocates the number and makes nothing on disk.
CreateBand_allocating_only ==
    /\ Cardinality(DOMAIN bands) < MaxBands
    /\ IF ~list_bands_ok
       THEN /\ last' = Outcome("create_band", "ValueError")
            /\ UNCHANGED calls
       ELSE /\ last' = Outcome("create_band", "none")
            /\ calls' = calls + 1
    /\ UNCHANGED <<bands, bw, blk, stored, root>>

\* Archive.create_band
CreateBand ==
    /\ Cardinality(DOMAIN bands) < MaxBands
    /\ IF ~list_bands_ok
       THEN /\ last' = Outcome("create_band", "ValueError")
            /\ UNCHANGED <<bands, calls>>
       ELSE create_directory(canonicalize_band_number(Str(next_band_number)))
    /\ UNCHANGED <<bw, blk, stored, root>>

\* ------------------------------------------------------------ BandWriter

\* What a caller may pass as the band number of a new BandWriter.
BandNumberInputs == {<<"0">>, <<"1">>}

\* BandWriter(archive, band_number): Band.__init__
NewBandWriter(band_number) ==
    /\ bw' = [made |-> TRUE,
              band_number |-> canonicalize_band_number(band_number),
              open |-> FALSE]
    /\ last' = Outcome("BandWriter", "none")
    /\ UNCHANGED <<bands, calls, blk, stored, root>>

\* The BandHead record start_band writes.
BandHeadOf(w) == [band_number |-> w.band_number]

\* A start_band that makes the band directory and writes no BAND-HEAD.
StartBand_without_head ==
    /\ bw.made
    /\ IF bw.open
       THEN /\ last' = Outcome("start_band", "AssertionError")
            /\ UNCHANGED <<bands, bw>>
       ELSE /\ bw' = [bw EXCEPT !.open = TRUE]
            /\ IF bw.band_number \in DOMAIN bands
               THEN /\ last' = Outcome("start_band", "OSError")
                    /\ UNCHANGED bands
               ELSE /\ bands' = [b \in DOMAIN bands \cup {bw.band_number} |->
                                   IF b = bw.band_number THEN EmptyDir ELSE bands[b]]
                    /\ last' = Outcome("start_band", "none")
    /\ UNCHANGED <<calls, blk, stored, root>>

\* BandWriter.start_band
StartBand ==
    /\ bw.made
    /\ IF bw.open
       THEN /\ last' = Outcome("start_band", "AssertionError")
            /\ UNCHANGED <<bands, bw>>
       ELSE /\ bw' = [bw EXCEPT !.open = TRUE]
            /\ IF bw.band_number \in DOMAIN bands
               THEN /\ last' = Outcome("start_band", "OSError")
                    /\ UNCHANGED bands
               ELSE /\ bands' = [b \in DOMAIN bands \cup {bw.band_number} |->
                                   IF b = bw.band_number
                                   THEN [EmptyDir EXCEPT !.head = {BandHeadOf(bw)}]
                                   ELSE bands[b]]
                    /\ last' = Outcome("start_band", "none")
    /\ UNCHANGED <<calls, blk, stored, root>>

\* A band tail that counts the data files of the band, not its index files.
BandTailOf_counting_data_files(w, dir) ==
    [band_number |-> w.band_number, block_count |-> Cardinality(DOMAIN dir.data)]

\* The BandTail record finish_band writes into a band directory.
BandTailOf(w, dir) ==
    [band_number |-> w.band_number, block_count |-> IntVal(next_block_number(dir))]

\* A finish_band that closes the writer and writes no tail.
FinishBand_without_tail ==
    /\ bw.made
    /\ IF ~bw.open
       THEN /\ last' = Outcome("finish_band", "AssertionError")
            /\ UNCHANGED bw
       ELSE /\ bw' = [bw EXCEPT !.open = FALSE]
            /\ last' = Outcome("finish_band", "none")
    /\ UNCHANGED <<bands, calls, blk, stored, root>>

\* BandWriter.finish_band
FinishBand ==
    /\ bw.made
    /\ IF ~bw.open
       THEN /\ last' = Outcome("finish_band", "AssertionError")
            /\ UNCHANGED <<bands, bw>>
       ELSE /\ bw' = [bw EXCEPT !.open = FALSE]
            /\ IF bw.band_number \notin DOMAIN bands
               THEN /\ last' = Outcome("finish_band", "OSError")
                    /\ UNCHANGED bands
               ELSE /\ bands' = [bands EXCEPT ![bw.band_number].tail =
                                   {BandTailOf(bw, bands[bw.band_number])}]
                    /\ last' = Outcome("finish_band", "none")
    /\ UNCHANGED <<calls, blk, stored, root>>

\* BandWriter.is_finished
writer_is_finished == ~bw.open

\* BandReader.is_finished, of a reader opened on band number b.
reader_is_finished(b) == b \in DOMAIN bands /\ bands[b].tail # {}

\* ----------------------------------------------------------- BlockWriter

\* What a caller may pass to store_file: path, file type, content or None.
StoreInputs ==
    {[path |-> "dir", file_type |-> DIRECTORY, content |-> {}],
     [path |-> "empty", file_type |-> REGULAR, content |-> {<<>>}],
     [path |-> "file", file_type |-> REGULAR, content |-> {<<1>>}],
     [path |-> "link", file_type |-> SYMLINK, content |-> {<<2, 3>>}]}

\* The bytes of a file after `buf` is written at offset `off`: a write past
\* the end leaves a hole of zero bytes.
WriteAt(bytes, off, buf) ==
    IF Len(buf) = 0 THEN bytes
    ELSE LET n == IF Len(bytes) > off + Len(buf) THEN Len(bytes) ELSE off + Len(buf)
         IN [i \in 1..n |->
               IF i > off /\ i <= off + Len(buf) THEN buf[i - off]
               ELSE IF i <= Len(bytes) THEN bytes[i] ELSE 0]

\* The bytes of the file once the file object's buffer is flushed to it.
Flushed(bytes, h) == WriteAt(bytes, h.pos - Len(h.buf), h.buf)

\* file.tell()
Tell(h) == h.pos

\* BlockWriter.__init__
NewBlockWriter(band, block_number) ==
    [made |-> TRUE, band |-> band, block_number |-> block_number, open |-> FALSE,
     file_count |-> 0, data_file_position |-> 0,
     block_index |-> EmptyBlockIndex, data_file |-> NoHandle, data_sha |-> <<>>]

\* The writer after begin() has opened its data file.
Begun(wr) ==
    [wr EXCEPT !.block_index = EmptyBlockIndex,
               !.data_file = [pos |-> 0, buf |-> <<>>, closed |-> FALSE],
               !.data_sha = <<>>,
               !.open = TRUE]

\* open(data_path, 'wb'): the data file created, or cut to no bytes.
OpenForWrite(dir, block_number) ==
    [dir EXCEPT !.data = [n \in DOMAIN dir.data \cup {block_number} |->
                             IF n = block_number THEN <<>> ELSE dir.data[n]]]

\* BlockWriter.begin
Begin(w) ==
    /\ blk[w].made
    /\ IF blk[w].open # FALSE
       THEN /\ last' = Outcome("begin", "AssertionError")
            /\ UNCHANGED <<bands, blk>>
       ELSE /\ bands' = [bands EXCEPT ![blk[w].band] =
                            OpenForWrite(bands[blk[w].band], blk[w].block_number)]
            /\ blk' = [blk EXCEPT ![w] = Begun(blk[w])]
            /\ last' = Outcome("begin", "none")
    /\ UNCHANGED <<calls, bw, stored, root>>

\* A slot is free for a new BlockWriter when it holds none, or one whose
\* data file is closed.
FreeSlot(w) == ~blk[w].made \/ (~blk[w].open /\ blk[w].data_file.closed)

\* Band.create_block, called on the BandWriter
CreateBlock(w) ==
    /\ bw.made
    /\ FreeSlot(w) /\ \A v \in BlockWriterIds : v < w => ~FreeSlot(v)
    /\ IF bw.band_number \notin DOMAIN bands
       THEN /\ last' = Outcome("create_block", "OSError")
            /\ UNCHANGED <<bands, blk>>
       ELSE LET number == next_block_number(bands[bw.band_number])
            IN /\ IntVal(number) < MaxBlocks
               /\ bands' = [bands EXCEPT ![bw.band_number] =
                               OpenForWrite(bands[bw.band_number], number)]
               /\ blk' = [blk EXCEPT ![w] =
                             Begun(NewBlockWriter(bw.band_number, number))]
               /\ last' = Outcome("create_block", "none")
    /\ UNCHANGED <<calls, bw, stored, root>>

\* A new FileEntry of the index, with path and type set.
NewEntry(path, file_type) ==
    [path |-> path, file_type |-> file_type,
     data_length |-> Unset, data_sha1 |-> Unset, data_offset |-> Unset]

AddEntry(wr, entry) ==
    [wr EXCEPT !.block_index.file = Append(wr.block_index.file, entry),
               !.file_count = wr.file_count + 1]

\* A store_bulk_content that reads the offset after the write, not before.
BulkEntry_offset_after_write(wr, path, file_type, c) ==
    IF Len(c) = 0
    THEN [NewEntry(path, file_type) EXCEPT !.data_length = {0}]
    ELSE [NewEntry(path, file_type) EXCEPT
              !.data_length = {Len(c)},
              !.data_sha1 = {Sha(c)},
              !.data_offset = IF wr.data_file.closed THEN Unset
                              ELSE {Tell(wr.data_file) + Len(c)}]

\* The entry as store_bulk_content has filled it when it reaches the write.
BulkEntry(wr, path, file_type, c) ==
    IF Len(c) = 0
    THEN [NewEntry(path, file_type) EXCEPT !.data_length = {0}]
    ELSE [NewEntry(path, file_type) EXCEPT
              !.data_length = {Len(c)},
              !.data_sha1 = {Sha(c)},
              !.data_offset = IF wr.data_file.closed THEN Unset
                              ELSE {Tell(wr.data_file)}]

\* The file object after write(c); the buffer is emptied when it is flushed.
Written(h, c, flush) ==
    [h EXCEPT !.pos = h.pos + Len(c),
              !.buf = IF flush THEN <<>> ELSE h.buf \o c]

\* BlockWriter.store_file with store_bulk_content
StoreFile(w, path, file_type, content, flush) ==
    /\ blk[w].made
    /\ stored < MaxStores
    /\ stored' = stored + 1
    /\ IF content = {}
       THEN /\ blk' = [blk EXCEPT ![w] = AddEntry(blk[w], NewEntry(path, file_type))]
            /\ last' = Outcome("store_file", "none")
            /\ UNCHANGED bands
       ELSE LET c == Value(content)
                wr == AddEntry(blk[w], BulkEntry(blk[w], path, file_type, c))
            IN IF blk[w].data_file.closed
               THEN /\ blk' = [blk EXCEPT ![w] = wr]
                    /\ last' = Outcome("store_file", "ValueError")
                    /\ UNCHANGED bands
               ELSE /\ blk' = [blk EXCEPT ![w] =
                                 [wr EXCEPT !.data_file = Written(wr.data_file, c, flush),
                                            !.data_sha = wr.data_sha \o c,
                                            !.data_file_position = Tell(wr.data_file) + Len(c)]]
                    /\ bands' = IF flush
                                THEN [bands EXCEPT ![wr.band].data[wr.block_number] =
                                        Flushed(@, [wr.data_file EXCEPT
                                                       !.pos = wr.data_file.pos + Len(c),
                                                       !.buf = wr.data_file.buf \o c])]
                                ELSE bands
                    /\ last' = Outcome("store_file", "none")
    /\ UNCHANGED <<calls, bw, root>>

\* The index as finish() writes it.
FinishedIndex(wr) ==
    [wr.block_index EXCEPT !.data_sha1 = {Sha(wr.data_sha)},
                           !.data_length = {Tell(wr.data_file)}]

\* BlockWriter.finish
Finish(w) ==
    /\ blk[w].made
    /\ IF blk[w].data_file.closed
       THEN /\ blk' = [blk EXCEPT ![w].block_index.data_sha1 = {Sha(blk[w].data_sha)}]
            /\ last' = Outcome("finish", "ValueError")
            /\ UNCHANGED bands
       ELSE /\ blk' = [blk EXCEPT ![w] =
                         [blk[w] EXCEPT !.block_index = FinishedIndex(blk[w]),
                                        !.data_file = [pos |-> blk[w].data_file.pos,
                                                       buf |-> <<>>, closed |-> TRUE],
                                        !.open = FALSE]]
            /\ bands' = [bands EXCEPT ![blk[w].band] =
                           [@ EXCEPT !.data[blk[w].block_number] = Flushed(@, blk[w].data_file),
                                     !.index = [n \in DOMAIN @ \cup {blk[w].block_number} |->
                                                  IF n = blk[w].block_number
                                                  THEN FinishedIndex(blk[w])
                                                  ELSE @[n]]]]
            /\ last' = Outcome("finish", "none")
    /\ UNCHANGED <<calls, bw, stored, root>>

\* ---------------------------------------------------------- specifications

\* The band layer alone: bands made by create_band and by BandWriters.
NextArchive ==
    \/ CreateBand
    \/ \E n \in BandNumberInputs : NewBandWriter(n)
    \/ StartBand
    \/ FinishBand

SpecArchive == Init /\ [][NextArchive]_vars

\* One band number, its BandWriters and the blocks created in it; what is
\* stored in the blocks is left to SpecBlock and SpecWriters.
NextBand ==
    \/ NewBandWriter(<<"0">>)
    \/ StartBand
    \/ FinishBand
    \/ \E w \in BlockWriterIds : CreateBlock(w)
    \/ \E w \in BlockWriterIds : Begin(w)
    \/ \E w \in BlockWriterIds : Finish(w)

SpecBand == Init /\ [][NextBand]_vars

\* The archive once a BandWriter for band 0 has started its band.
InitBlock ==
    /\ bands = (<<"0", "0", "0", "0">> :> [EmptyDir EXCEPT !.head = {[band_number |-> <<"0", "0", "0", "0">>]}])
    /\ calls = 0
    /\ bw = [made |-> TRUE, band_number |-> <<"0", "0", "0", "0">>, open |-> TRUE]
    /\ blk = [w \in BlockWriterIds |-> NoBlockWriter]
    /\ stored = 0
    /\ root = [path \in ArchivePaths |->
                  IF path = archive_path THEN CreatedArchive ELSE NoArchive]
    /\ last = Outcome("start_band", "none")

\* The block layer within one open band, each BlockWriter finished before
\* the next is created.
NextBlock ==
    \/ CreateBlock(1)
    \/ Begin(1)
    \/ \E f \in StoreInputs, flush \in BOOLEAN :
          StoreFile(1, f.path, f.file_type, f.content, flush)
    \/ Finish(1)

SpecBlock == InitBlock /\ [][NextBlock]_vars

\* What the BlockWriters of SpecWriters store.
WritersStoreInputs == {f \in StoreInputs : f.path \in {"file", "link"}}

\* Several BlockWriters of one open band in use at once.
NextWriters ==
    \/ \E w \in BlockWriterIds : CreateBlock(w)
    \/ \E w \in BlockWriterIds, f \in WritersStoreInputs, flush \in BOOLEAN :
          StoreFile(w, f.path, f.file_type, f.content, flush)
    \/ \E w \in BlockWriterIds : Finish(w)

SpecWriters == InitBlock /\ [][NextWriters]_vars

\* ------------------------------------------------- Archive.create and open

\* "black magic", "some garbage" and "not this!", as byte values.
BlackMagic == <<98, 108, 97, 99, 107, 32, 109, 97, 103, 105, 99>>
SomeGarbage == <<115, 111, 109, 101, 32, 103, 97, 114, 98, 97, 103, 101>>
NotThis == <<110, 111, 116, 32, 116, 104, 105, 115, 33>>

\* Bytes a header file is overwritten with: a header of another magic,
\* text that is no record, nothing, a header cut short, and the archive's
\* own header followed by a field of another number.
HeaderInputs ==
    {SerializeHeader(BlackMagic), SomeGarbage, NotThis, <<>>,
     SubSeq(make_archive_header_bytestring, 1, 10),
     make_archive_header_bytestring \o <<16, 1>>,
     make_archive_header_bytestring}

\* What a call of Archive.open ends with; the errors carry their kwargs.
OpenOutcome(path, err, kwargs) ==
    [op |-> "open", err |-> err, path |-> path, kwargs |-> kwargs]

\* Archive.create(path)
Create(path) ==
    /\ IF root[path].exists
       THEN /\ last' = [op |-> "create", err |-> "OSError", path |-> path]
            /\ UNCHANGED root
       ELSE /\ root' = [root EXCEPT ![path] = CreatedArchive]
            /\ last' = [op |-> "create", err |-> "none", path |-> path]
    /\ UNCHANGED <<bands, calls, bw, blk, stored>>

\* A _check_header that does not compare the magic.
check_header_any_magic(path) ==
    IF ~root[path].exists \/ root[path].header = {}
    THEN OpenOutcome(path, "NoSuchArchive", [path |-> header_path(path), error |-> "ENOENT"])
    ELSE IF ~Value(root[path].header).readable
    THEN OpenOutcome(path, "IOError", [error |-> "EACCES"])
    ELSE IF ~ParseHeader(Value(root[path].header).bytes).ok
    THEN OpenOutcome(path, "BadArchiveHeader", [header_path |-> header_path(path)])
    ELSE OpenOutcome(path, "none", << >>)

\* A _check_header that takes a missing header file for a bad header.
check_header_missing_is_bad(path) ==
    IF ~root[path].exists
    THEN OpenOutcome(path, "NoSuchArchive", [path |-> header_path(path), error |-> "ENOENT"])
    ELSE IF root[path].header = {}
    THEN OpenOutcome(path, "BadArchiveHeader", [header_path |-> header_path(path)])
    ELSE IF ~Value(root[path].header).readable
    THEN OpenOutcome(path, "IOError", [error |-> "EACCES"])
    ELSE LET header == ParseHeader(Value(root[path].header).bytes)
         IN IF ~header.ok \/ header.magic # HEADER_MAGIC
            THEN OpenOutcome(path, "BadArchiveHeader", [header_path |-> header_path(path)])
            ELSE OpenOutcome(path, "none", << >>)

\* A _check_header that wraps every failure to read as BadArchiveHeader.
check_header_wrapping_all(path) ==
    IF ~root[path].exists \/ root[path].header = {}
    THEN OpenOutcome(path, "NoSuchArchive", [path |-> header_path(path), error |-> "ENOENT"])
    ELSE IF ~Value(root[path].header).readable
    THEN OpenOutcome(path, "BadArchiveHeader", [header_path |-> header_path(path)])
    ELSE LET header == ParseHeader(Value(root[path].header).bytes)
         IN IF ~header.ok \/ header.magic # HEADER_MAGIC
            THEN OpenOutcome(path, "BadArchiveHeader", [header_path |-> header_path(path)])
            ELSE OpenOutcome(path, "none", << >>)

\* Archive._check_header of Archive(path), on the header file as it is on disk.
check_header(path) ==
    IF ~root[path].exists \/ root[path].header = {}
    THEN OpenOutcome(path, "NoSuchArchive", [path |-> header_path(path), error |-> "ENOENT"])
    ELSE IF ~Value(root[path].header).readable
    THEN OpenOutcome(path, "IOError", [error |-> "EACCES"])
    ELSE LET header == ParseHeader(Value(root[path].header).bytes)
         IN IF ~header.ok
            THEN OpenOutcome(path, "BadArchiveHeader", [header_path |-> header_path(path)])
            ELSE IF header.magic # HEADER_MAGIC
            THEN OpenOutcome(path, "BadArchiveHeader", [header_path |-> header_path(path)])
            ELSE OpenOutcome(path, "none", << >>)

\* Archive.open(path)
Open(path) ==
    /\ last' = check_header(path)
    /\ UNCHANGED <<bands, calls, bw, blk, stored, root>>

\* The caller makes the directory itself (a temporary directory).
Mkdir(path) ==
    /\ ~root[path].exists
    /\ root' = [root EXCEPT ![path] = [exists |-> TRUE, header |-> {}]]
    /\ last' = Outcome("mkdir", "none")
    /\ UNCHANGED <<bands, calls, bw, blk, stored>>

\* The caller overwrites DURA-ARCHIVE in the directory.
WriteHeaderFile(path, bytes) ==
    /\ root[path].exists
    /\ IF root[path].header = {} THEN TRUE ELSE Value(root[path].header).readable
    /\ root' = [root EXCEPT ![path].header = {FileOf(bytes)}]
    /\ last' = Outcome("write", "none")
    /\ UNCHANGED <<bands, calls, bw, blk, stored>>

\* The caller takes all permissions off the header file: os.chmod(path, 0).
Chmod(path) ==
    /\ root[path].header # {}
    /\ root' = [root EXCEPT ![path].header = {[Value(root[path].header) EXCEPT !.readable = FALSE]}]
    /\ last' = Outcome("chmod", "none")
    /\ UNCHANGED <<bands, calls, bw, blk, stored>>

\* Paths with no archive yet.
InitHeader ==
    /\ bands = << >>
    /\ calls = 0
    /\ bw = NoBandWriter
    /\ blk = [w \in BlockWriterIds |-> NoBlockWriter]
    /\ stored = 0
    /\ root = [path \in ArchivePaths |-> NoArchive]
    /\ last = Outcome("none", "none")

\* Creating and opening archives whose header file the caller may damage.
NextHeader ==
    \/ \E path \in ArchivePaths : Create(path)
    \/ \E path \in ArchivePaths : Open(path)
    \/ \E path \in ArchivePaths : Mkdir(path)
    \/ \E path \in ArchivePaths, bytes \in HeaderInputs : WriteHeaderFile(path, bytes)
    \/ \E path \in ArchivePaths : Chmod(path)

SpecHeader == InitHeader /\ [][NextHeader]_vars

\* ----------------------------------------------------------------- backup

\* Number of entries the ingestion puts into one block before it starts
\* the next.
FILES_PER_BLOCK == 20

\* Largest number of backup runs into one archive.
MaxRuns == 3

\* Length of the longest list of one-byte files a run stores.
MaxFiles == 21

\* The source tree: what lstat, read and readlink give for each path.
SourceTree ==
    [hello |-> [mode |-> "S_IFREG", content |-> <<1, 2>>],
     world |-> [mode |-> "S_IFREG", content |-> <<3>>],
     empty |-> [mode |-> "S_IFREG", content |-> <<>>],
     dir   |-> [mode |-> "S_IFDIR", content |-> <<>>],
     link  |-> [mode |-> "S_IFLNK", content |-> <<4, 5>>],
     dev   |-> [mode |-> "S_IFCHR", content |-> <<>>]]

\* The file lists backup runs are given.
BackupInputs ==
    {<< >>, <<"hello">>, <<"world", "hello">>,
     <<"dir", "hello", "empty", "link", "dev", "world">>,
     [i \in 1..MaxFiles |-> "world"]}

\* An entry that gives a directory a data_length of 0, as if its content
\* were the empty string and not None.
file_index_of_sizing_directories(file_name, position) ==
    LET st == SourceTree[file_name]
        file_content == st.content
        sized(ptype) ==
            IF Len(file_content) = 0
            THEN [NewEntry(file_name, ptype) EXCEPT !.data_length = {0}]
            ELSE [NewEntry(file_name, ptype) EXCEPT
                     !.data_length = {Len(file_content)},
                     !.data_sha1 = {Sha(file_content)},
                     !.data_offset = {position}]
    IN IF st.mode = "S_IFREG" THEN {sized(REGULAR)}
       ELSE IF st.mode = "S_IFDIR" THEN {sized(DIRECTORY)}
       ELSE IF st.mode = "S_IFLNK" THEN {sized(SYMLINK)}
       ELSE {}

\* The entry store_files adds for file_name when `position` bytes are
\* already written to the data file; no entry for a special file.
file_index_of(file_name, position) ==
    LET st == SourceTree[file_name]
        file_content == st.content
        sized(ptype) ==
            IF Len(file_content) = 0
            THEN [NewEntry(file_name, ptype) EXCEPT !.data_length = {0}]
            ELSE [NewEntry(file_name, ptype) EXCEPT
                     !.data_length = {Len(file_content)},
                     !.data_sha1 = {Sha(file_content)},
                     !.data_offset = {position}]
    IN IF st.mode = "S_IFREG" THEN {sized(REGULAR)}
       ELSE IF st.mode = "S_IFDIR" THEN {NewEntry(file_name, DIRECTORY)}
       ELSE IF st.mode = "S_IFLNK" THEN {sized(SYMLINK)}
       ELSE {}

\* A loop of store_files that writes each content before what is already
\* in the data file.
RECURSIVE store_loop_writing_in_front(_, _, _)
store_loop_writing_in_front(file_names, block_index, data) ==
    IF Len(file_names) = 0 THEN [block_index |-> block_index, data |-> data]
    ELSE LET file_name == Head(file_names)
             entry == file_index_of(file_name, Len(data))
         IN IF entry = {}
            THEN store_loop_writing_in_front(Tail(file_names), block_index, data)
            ELSE store_loop_writing_in_front(Tail(file_names),
                    [block_index EXCEPT !.file = Append(@, Value(entry))],
                    IF SourceTree[file_name].mode = "S_IFDIR" THEN data
                    ELSE SourceTree[file_name].content \o data)

\* The loop of store_files over file_names: the index and the bytes of the
\* data file after it, data_file.tell() being the bytes written so far.
RECURSIVE store_loop(_, _, _)
store_loop(file_names, block_index, data) ==
    IF Len(file_names) = 0 THEN [block_index |-> block_index, data |-> data]
    ELSE LET file_name == Head(file_names)
             entry == file_index_of(file_name, Len(data))
         IN IF entry = {}
            THEN store_loop(Tail(file_names), block_index, data)
            ELSE store_loop(Tail(file_names),
                    [block_index EXCEPT !.file = Append(@, Value(entry))],
                    IF SourceTree[file_name].mode = "S_IFDIR" THEN data
                    ELSE data \o SourceTree[file_name].content)

\* store_files(file_names, to_band): the band directory with block 000000
\* written, whatever the number of files.
store_files(file_names, dir) ==
    LET block_number == ZeroPad(6, 0)
        stored_block == store_loop(file_names, EmptyBlockIndex, <<>>)
        block_index == [stored_block.block_index EXCEPT
                           !.data_sha1 = {Sha(stored_block.data)},
                           !.data_length = {Len(stored_block.data)}]
    IN [dir EXCEPT
          !.data = [n \in DOMAIN dir.data \cup {block_number} |->
                      IF n = block_number THEN stored_block.data ELSE dir.data[n]],
          !.index = [n \in DOMAIN dir.index \cup {block_number} |->
                      IF n = block_number THEN block_index ELSE dir.index[n]]]

\* What a backup run ends with: the band it made and the files it was given.
BackupOutcome(err, band_number, file_names) ==
    [op |-> "backup", err |-> err, band |-> band_number, file_names |-> file_names]

\* The directory of a band that was started, given the files by store_files
\* and finished.
BackedUpBand(writer, file_names) ==
    LET started == [EmptyDir EXCEPT !.head = {BandHeadOf(writer)}]
        written == store_files(file_names, started)
    IN [written EXCEPT !.tail = {BandTailOf(writer, written)}]

\* do_backup(file_names, archive) as cmd_backup runs it: a new band is
\* started, store_files writes the files into it, the band is finished.
DoBackup(file_names) ==
    /\ Cardinality(DOMAIN bands) < MaxRuns
    /\ LET opened == check_header(archive_path)
           band_number == canonicalize_band_number(Str(next_band_number))
           writer == [made |-> TRUE, band_number |-> band_number, open |-> TRUE]
           finished == BackedUpBand(writer, file_names)
       IN IF opened.err # "none"
          THEN /\ last' = opened
               /\ UNCHANGED <<bands, bw>>
          ELSE IF band_number \in DOMAIN bands
          THEN /\ last' = BackupOutcome("OSError", band_number, file_names)
               /\ bw' = writer
               /\ UNCHANGED bands
          ELSE /\ bands' = [b \in DOMAIN bands \cup {band_number} |->
                              IF b = band_number THEN finished ELSE bands[b]]
               /\ bw' = [writer EXCEPT !.open = FALSE]
               /\ last' = BackupOutcome("none", band_number, file_names)
    /\ UNCHANGED <<calls, blk, stored, root>>

\* Archive.last_band: the highest band number, none in an empty archive.
last_band ==
    LET existing_bands == list_bands
    IN IF Len(existing_bands) = 0 THEN {}
       ELSE {existing_bands[Len(existing_bands)]}

\* Backup runs into a fresh archive.
NextBackup == \E file_names \in BackupInputs : DoBackup(file_names)

SpecBackup == Init /\ [][NextBackup]_vars

\* -------------------------------------------------------------- validation

\* A byte with its lowest bit flipped.
FlipBit(byte) == IF byte % 2 = 0 THEN byte + 1 ELSE byte - 1

\* data_file.read(n) at position pos: n bytes, or as many as are left.
ReadAt(data, pos, n) ==
    SubSeq(data, pos + 1, IF pos + n <= Len(data) THEN pos + n ELSE Len(data))

\* The loop of check_block over the entries of the index, the data file
\* being read from position pos: the error it ends with, the first
\* assertion that fails ending it.
RECURSIVE check_entries(_, _, _)
check_entries(files, data, pos) ==
    IF Len(files) = 0 THEN "none"
    ELSE LET file == Head(files)
             body_bytes == ReadAt(data, pos, IntField(file.data_length))
         IN IF IntField(file.data_length) = 0
            THEN check_entries(Tail(files), data, pos)
            ELSE IF pos # IntField(file.data_offset) THEN "AssertionError"
            ELSE IF Len(body_bytes) # IntField(file.data_length) THEN "AssertionError"
            ELSE IF {Sha(body_bytes)} # file.data_sha1 THEN "AssertionError"
            ELSE check_entries(Tail(files), data, pos + Len(body_bytes))

\* The two block-level checks check_block logs, those that came out False.
block_checks(block_index, data) ==
    (IF Len(data) = IntField(block_index.data_length) THEN <<>>
     ELSE <<"block data length check: False">>)
    \o (IF {Sha(data)} = block_index.data_sha1 THEN <<>>
        ELSE <<"block data sha1 check: False">>)

\* What a validation call ends with and what it has reported.
ValidateOutcome(op, err, findings) == [op |-> op, err |-> err, findings |-> findings]

\* check_block(band_filename) on block `block_number` of band `b`.
CheckBlock(b, block_number) ==
    /\ b \in DOMAIN bands
    /\ IF block_number \notin DOMAIN bands[b].data
          \/ block_number \notin DOMAIN bands[b].index
       THEN last' = ValidateOutcome("check_block", "IOError", <<>>)
                       @@ [band |-> b, block |-> block_number]
       ELSE LET data == bands[b].data[block_number]
                block_index == bands[b].index[block_number]
            IN last' = ValidateOutcome("check_block",
                                       check_entries(block_index.file, data, 0),
                                       block_checks(block_index, data))
                       @@ [band |-> b, block |-> block_number]
    /\ UNCHANGED <<bands, calls, bw, blk, stored, root>>

\* validate_archive(archive_path): the archive is opened and nothing more.
ValidateArchive ==
    /\ last' = ValidateOutcome("validate_archive", check_header(archive_path).err, <<>>)
    /\ UNCHANGED <<bands, calls, bw, blk, stored, root>>

\* Damage to the archive: one byte of a data file has a bit flipped.
Corrupt(b, block_number, i) ==
    /\ b \in DOMAIN bands
    /\ block_number \in DOMAIN bands[b].data
    /\ i \in 1..Len(bands[b].data[block_number])
    /\ bands' = [bands EXCEPT ![b].data[block_number][i] = FlipBit(@)]
    /\ last' = Outcome("corrupt", "none")
    /\ UNCHANGED <<calls, bw, blk, stored, root>>

\* An archive of two bands, each backed up with two files.
InitValidate ==
    /\ bands = (ZeroPad(4, 0) :>
                   BackedUpBand([band_number |-> ZeroPad(4, 0)], <<"hello", "world">>))
               @@ (ZeroPad(4, 1) :>
                   BackedUpBand([band_number |-> ZeroPad(4, 1)], <<"link", "empty", "hello">>))
    /\ calls = 0
    /\ bw = [made |-> TRUE, band_number |-> ZeroPad(4, 1), open |-> FALSE]
    /\ blk = [w \in BlockWriterIds |-> NoBlockWriter]
    /\ stored = 0
    /\ root = [path \in ArchivePaths |->
                  IF path = archive_path THEN CreatedArchive ELSE NoArchive]
    /\ last = BackupOutcome("none", ZeroPad(4, 1), <<"link", "empty", "hello">>)

\* Validation of an archive whose data files get damaged.
NextValidate ==
    \/ ValidateArchive
    \/ \E b \in DOMAIN bands : CheckBlock(b, ZeroPad(6, 0))
    \/ \E b \in DOMAIN bands, i \in 1..4 : Corrupt(b, ZeroPad(6, 0), i)

SpecValidate == InitValidate /\ [][NextValidate]_vars

\* -------------------------------------------------------------- BandReader

\* read_proto_from_file(cls, filename) on a record file that may be absent:
\* the record, or None with a warning logged when the file cannot be opened.
read_proto_from_file(file) ==
    IF file = {}
    THEN [err |-> "none", pb |-> {}, warning |-> TRUE]
    ELSE [err |-> "none", pb |-> file, warning |-> FALSE]

\* The BAND-HEAD file of band b as it is on disk; none when the band
\* directory does not exist.
HeadFile(b) == IF b \in DOMAIN bands THEN bands[b].head ELSE {}

\* The band numbers readers are opened on.
ReaderInputs == {<<"0">>, <<"1">>}

\* Band.read_head of a BandReader on band_number: the head attribute is
\* set to what read_proto_from_file gives, and nothing is returned.
ReadHead(band_number) ==
    /\ LET b == canonicalize_band_number(band_number)
           read == read_proto_from_file(HeadFile(b))
       IN last' = [op |-> "read_head", err |-> read.err, band |-> b,
                   returned |-> {}, head |-> read.pb, warning |-> read.warning]
    /\ UNCHANGED <<bands, calls, bw, blk, stored, root>>

\* archive.open_band_reader(band_number): a BandReader on the band, its
\* head loaded.
OpenBandReader(band_number) ==
    /\ LET b == canonicalize_band_number(band_number)
           read == read_proto_from_file(HeadFile(b))
       IN last' = [op |-> "open_band_reader", err |-> read.err, band |-> b,
                   head |-> read.pb, warning |-> read.warning]
    /\ UNCHANGED <<bands, calls, bw, blk, stored, root>>

\* BandReader.is_finished, called on a reader of band_number.
IsFinished(band_number) ==
    /\ LET b == canonicalize_band_number(band_number)
       IN last' = [op |-> "is_finished", err |-> "none", band |-> b,
                   returned |-> {reader_is_finished(b)}]
    /\ UNCHANGED <<bands, calls, bw, blk, stored, root>>

\* The band layer with readers on the bands.
NextReader ==
    \/ CreateBand
    \/ \E n \in BandNumberInputs : NewBandWriter(n)
    \/ StartBand
    \/ FinishBand
    \/ Open(archive_path)
    \/ \E n \in ReaderInputs : OpenBandReader(n)
    \/ \E n \in ReaderInputs : IsFinished(n)
    \/ \E n \in ReaderInputs : ReadHead(n)

SpecReader == Init /\ [][NextReader]_vars

\* --------------------------------------------------- band number ordering

\* Largest number of hyphen-separated fields in a band number compared.
MaxFields == 2

\* The integers the fields of the compared band numbers stand for.
FieldValues == {1, 900, 9000, 10001}

\* The widths the fields are written with: as str(n), and as '%04d' % n.
FieldWidths == {1, 4}

\* The band numbers compared: what each field stands for and how it is written.
NumberInputs ==
    {[fields |-> f, width |-> w] :
        f \in UNION {[1..k -> FieldValues] : k \in 1..MaxFields}, w \in FieldWidths}

\* The band number string of an input: its fields, written and joined by '-'.
RECURSIVE NumberOf(_)
NumberOf(x) ==
    IF Len(x.fields) = 1 THEN ZeroPad(x.width, x.fields[1])
    ELSE ZeroPad(x.width, x.fields[1]) \o <<"-">>
         \o NumberOf([x EXCEPT !.fields = Tail(x.fields)])

\* The numbers of the sorting test, ascending, and one number of two fields.
SortedInputs ==
    <<[fields |-> <<0>>, width |-> 4], [fields |-> <<1>>, width |-> 1],
      [fields |-> <<1, 2>>, width |-> 4], [fields |-> <<42>>, width |-> 4],
      [fields |-> <<9998>>, width |-> 4], [fields |-> <<10000>>, width |-> 4]>>

\* x put into an ascending list, after the elements that do not compare
\* greater than it.
RECURSIVE Insert(_, _)
Insert(numbers, x) ==
    IF Len(numbers) = 0 THEN <<x>>
    ELSE IF cmp_band_numbers(numbers[Len(numbers)], x) <= 0 THEN Append(numbers, x)
    ELSE Append(Insert(SubSeq(numbers, 1, Len(numbers) - 1), x), numbers[Len(numbers)])

\* Python sorted(numbers, cmp=cmp_band_numbers): a stable sort.
RECURSIVE sorted(_)
sorted(numbers) ==
    IF Len(numbers) = 0 THEN <<>>
    ELSE Insert(sorted(SubSeq(numbers, 1, Len(numbers) - 1)), numbers[Len(numbers)])

\* cmp_band_numbers(n1, n2) on the two numbers drawn.
CmpBandNumbers ==
    /\ last.op = "numbers"
    /\ LET n1 == NumberOf(last.a)
           n2 == NumberOf(last.b)
       IN last' = [op |-> "cmp_band_numbers", err |-> "none", a |-> last.a, b |-> last.b,
                   n1 |-> n1, n2 |-> n2, result |-> cmp_band_numbers(n1, n2)]
    /\ UNCHANGED <<bands, calls, bw, blk, stored, root>>

\* sorted(numbers, cmp=cmp_band_numbers) on the numbers of the sorting test
\* in the order `order`.
Sorted(order) ==
    /\ LET numbers == [i \in 1..Len(SortedInputs) |-> NumberOf(SortedInputs[order[i]])]
       IN last' = [op |-> "sorted", err |-> "none", numbers |-> numbers,
                   result |-> sorted(numbers)]
    /\ UNCHANGED <<bands, calls, bw, blk, stored, root>>

\* Two band numbers are drawn.
InitCmp ==
    /\ bands = << >>
    /\ calls = 0
    /\ bw = NoBandWriter
    /\ blk = [w \in BlockWriterIds |-> NoBlockWriter]
    /\ stored = 0
    /\ root = [path \in ArchivePaths |->
                  IF path = archive_path THEN CreatedArchive ELSE NoArchive]
    /\ last \in {[op |-> "numbers", err |-> "none", a |-> a, b |-> b] :
                    a \in NumberInputs, b \in NumberInputs}

\* The orders sorted() is given the numbers in: ascending, descending, as
\* sorted by text and the reverse of that, and two others.
SortOrders ==
    {<<1, 2, 3, 4, 5, 6>>, <<6, 5, 4, 3, 2, 1>>,
     <<1, 3, 4, 2, 6, 5>>, <<5, 6, 2, 4, 3, 1>>,
     <<4, 1, 6, 3, 5, 2>>, <<2, 6, 1, 5, 3, 4>>}

NextCmp ==
    \/ CmpBandNumbers
    \/ \E order \in SortOrders : Sorted(order)

SpecCmp == InitCmp /\ [][NextCmp]_vars

\* ------------------------------------------------------- interrupted runs

\* Largest number of bands in the archive when a run that fails is started.
MaxInterrupted == 2

\* The file lists the runs that fail are given.
IngestInputs ==
    {<<"hello">>, <<"world", "hello">>,
     <<"dir", "hello", "empty", "link", "dev", "world">>}

\* Where a run over file_names can fail, `at` being the place in file_names
\* it has come to: os.lstat or the read of a source file, the write of a
\* content to the data file, the write of the index, the creation of
\* BAND-TAIL, and the write into BAND-TAIL once it is created.
Faults(file_names) ==
    {[step |-> "source", at |-> k, err |-> "OSError"] : k \in 1..Len(file_names)}
    \cup {[step |-> "store", at |-> k, err |-> "IOError"] :
             k \in {j \in 1..Len(file_names) :
                       Len(SourceTree[file_names[j]].content) > 0}}
    \cup {[step |-> s, at |-> Len(file_names) + 1, err |-> "IOError"] :
             s \in {"finish", "finish_band", "finish_band_write"}}

\* The band directory store_files leaves when it is given file_names and an
\* exception ends it at `fault`: both files of block 000000 were opened for
\* writing before the loop, the data file holds the contents written so
\* far, and the index file holds nothing until the write of the index.
interrupted_store_files(file_names, dir, fault) ==
    LET block_number == ZeroPad(6, 0)
        stored_block == store_loop(SubSeq(file_names, 1, fault.at - 1),
                                   EmptyBlockIndex, <<>>)
    IN [dir EXCEPT
          !.data = [n \in DOMAIN dir.data \cup {block_number} |->
                      IF n = block_number THEN stored_block.data ELSE dir.data[n]],
          !.index = [n \in DOMAIN dir.index \cup {block_number} |->
                      IF n = block_number THEN EmptyBlockIndex ELSE dir.index[n]]]

\* A BAND-TAIL file that was created and holds no bytes: a BandTail with no
\* field set.
EmptyBandTail == [band_number |-> <<>>, block_count |-> 0]

\* The directory of a band whose run fails at `fault`.
InterruptedBand(writer, file_names, fault) ==
    LET started == [EmptyDir EXCEPT !.head = {BandHeadOf(writer)}]
    IN IF fault.step \in {"source", "store", "finish"}
       THEN interrupted_store_files(file_names, started, fault)
       ELSE IF fault.step = "finish_band"
       THEN store_files(file_names, started)
       ELSE [store_files(file_names, started) EXCEPT !.tail = {EmptyBandTail}]

\* do_backup(file_names, archive) when one of its steps raises: the band
\* is started, and the exception leaves store_files or finish_band where
\* it is raised; finish_band has set open to False before it writes.
DoBackupFailing(file_names, fault) ==
    /\ Cardinality(DOMAIN bands) < MaxInterrupted
    /\ check_header(archive_path).err = "none"
    /\ LET band_number == canonicalize_band_number(Str(next_band_number))
           writer == [made |-> TRUE, band_number |-> band_number, open |-> TRUE]
       IN /\ band_number \notin DOMAIN bands
          /\ bands' = [b \in DOMAIN bands \cup {band_number} |->
                         IF b = band_number
                         THEN InterruptedBand(writer, file_names, fault)
                         ELSE bands[b]]
          /\ bw' = [writer EXCEPT !.open =
                       fault.step \notin {"finish_band", "finish_band_write"}]
          /\ last' = [op |-> "backup", err |-> fault.err, band |-> band_number,
                      file_names |-> file_names, step |-> fault.step]
    /\ UNCHANGED <<calls, blk, stored, root>>

\* Backup runs into a fresh archive, some of which fail.
NextIngest ==
    \/ \E file_names \in IngestInputs : DoBackup(file_names)
    \/ \E file_names \in IngestInputs :
          \E fault \in Faults(file_names) : DoBackupFailing(file_names, fault)

SpecIngest == Init /\ [][NextIngest]_vars

\* ------------------------------------------------------- foreign children

\* Names of children of the archive directory that were not made by the
\* archive's own calls, without their first letter 'b': "bad", and "b7",
\* a number that is not in canonical form.
ForeignNames == {<<"a", "d">>, <<"7">>}

\* Something else makes a directory named 'b' + rest in the archive directory.
MakeChild(rest) ==
    /\ rest \notin DOMAIN bands
    /\ bands' = [b \in DOMAIN bands \cup {rest} |->
                    IF b = rest THEN EmptyDir ELSE bands[b]]
    /\ last' = Outcome("mkdir", "none")
    /\ UNCHANGED <<calls, bw, blk, stored, root>>

\* What a call of Archive.list_bands ends with: sorting a list of two names
\* or more compares all of them, and int() of a field that is no number
\* raises ValueError; a list of one name is returned as it is.
list_bands_call ==
    LET matching == UNION {match_band_name(name) : name \in ArchiveListDir}
    IN IF Cardinality(matching) >= 2 /\ ~list_bands_ok
       THEN [op |-> "list_bands", err |-> "ValueError", result |-> <<>>]
       ELSE IF Cardinality(matching) = 1
       THEN [op |-> "list_bands", err |-> "none",
             result |-> <<CHOOSE n \in matching : TRUE>>]
       ELSE [op |-> "list_bands", err |-> "none", result |-> list_bands]

\* archive.list_bands()
ListBands ==
    /\ last' = list_bands_call
    /\ UNCHANGED <<bands, calls, bw, blk, stored, root>>

\* An archive in which bands are made and listed next to foreign children.
NextForeign ==
    \/ CreateBand
    \/ ListBands
    \/ \E rest \in ForeignNames : MakeChild(rest)

SpecForeign == Init /\ [][NextForeign]_vars

\* ------------------------------------------------------------ record files

\* read_proto_from_file(cls, filename) on the file as it is on disk in
\* `dir`: None, with a warning logged, when the file cannot be opened or
\* read; the DecodeError of ParseFromString when its bytes do not parse;
\* the record otherwise.
read_proto_from_file_bytes(dir) ==
    IF ~dir.exists \/ dir.header = {}
    THEN [err |-> "none", returned |-> {}, warning |-> TRUE]
    ELSE IF ~Value(dir.header).readable
    THEN [err |-> "none", returned |-> {}, warning |-> TRUE]
    ELSE LET pb == ParseHeader(Value(dir.header).bytes)
         IN IF ~pb.ok
            THEN [err |-> "DecodeError", returned |-> {}, warning |-> FALSE]
            ELSE [err |-> "none", returned |-> {[magic |-> pb.magic]}, warning |-> FALSE]

\* read_proto_from_file(ArchiveHeader, header_path(path))
ReadProtoFromFile(path) ==
    /\ last' = [op |-> "read_proto_from_file", path |-> path]
               @@ read_proto_from_file_bytes(root[path])
    /\ UNCHANGED <<bands, calls, bw, blk, stored, root>>

\* The magic strings of the records written.
RecordInputs == {HEADER_MAGIC, BlackMagic}

\* Numbers of bytes that have reached the file when a write fails.
PartialLengths == {0, 10}

\* How the write of a record into the opened file goes: all of it is
\* written, or the write or the flush at close fails with `written` bytes
\* in the file.
WriteFaults ==
    {[step |-> "none", written |-> 0]}
    \cup {[step |-> "write", written |-> k] : k \in PartialLengths}

\* write_proto_to_file(proto_obj, header_path(path)): the record is
\* serialized, the file is opened with mode 'wb', which makes it or cuts it
\* to no bytes, and the bytes are written.
WriteProtoToFile(path, magic, fault) ==
    /\ LET proto_bytes == SerializeHeader(magic)
           outcome(err) == [op |-> "write_proto_to_file", err |-> err,
                            path |-> path, proto_bytes |-> proto_bytes]
       IN IF ~root[path].exists
          THEN /\ last' = outcome("IOError")
               /\ UNCHANGED root
          ELSE IF (IF root[path].header = {} THEN FALSE
                   ELSE ~Value(root[path].header).readable)
          THEN /\ last' = outcome("IOError")
               /\ UNCHANGED root
          ELSE IF fault.step = "write"
          THEN /\ root' = [root EXCEPT ![path].header =
                              {FileOf(SubSeq(proto_bytes, 1, fault.written))}]
               /\ last' = outcome("IOError")
          ELSE /\ root' = [root EXCEPT ![path].header = {FileOf(proto_bytes)}]
               /\ last' = outcome("none")
    /\ UNCHANGED <<bands, calls, bw, blk, stored>>

\* Records written to and read from files, the writes failing at times.
NextRecord ==
    \/ \E path \in ArchivePaths : Mkdir(path)
    \/ \E path \in ArchivePaths : Chmod(path)
    \/ \E path \in ArchivePaths, magic \in RecordInputs, fault \in WriteFaults :
          WriteProtoToFile(path, magic, fault)
    \/ \E path \in ArchivePaths : ReadProtoFromFile(path)

SpecRecord == InitHeader /\ [][NextRecord]_vars

\* ------------------------------------------------------------------ claims

\* Every band directory of the archive was made by create_band.
OnlyCreateBand == Cardinality(DOMAIN bands) = calls

\* C1: after k create_band() calls on a fresh archive, with no band made any
\* other way, list_bands() is exactly "0000", "0001", ..., '%04d' % (k-1) in
\* that order, and no create_band() call fails on a number already in use.
C1_BandNumbering ==
    /\ OnlyCreateBand =>
          list_bands = [i \in 1..calls |-> ZeroPad(4, i - 1)]
    /\ last.op = "create_band" => last.err = "none"

\* Eleven bands made by create_band, the last of them numbered "0010".
C1_Witness ==
    /\ OnlyCreateBand
    /\ calls = 11
    /\ last.op = "create_band"
    /\ list_bands[11] = <<"0", "0", "1", "0">>

\* The index files on disk: band and block number of each.
IndexFiles ==
    {x \in (DOMAIN bands) \X UNION {DOMAIN bands[c].index : c \in DOMAIN bands} :
        x[2] \in DOMAIN bands[x[1]].index}

\* The entries of an index that have content: data_length > 0.
WithContent(files) == SelectSeq(files, LAMBDA e : IntField(e.data_length) > 0)

\* Each entry with content starts where the one before it ends, the first at 0.
Contiguous(files) ==
    LET ne == WithContent(files)
    IN \A i \in 1..Len(ne) :
          ne[i].data_offset =
             {IF i = 1 THEN 0
              ELSE Value(ne[i - 1].data_offset) + Value(ne[i - 1].data_length)}

\* C2: in the index of every block finalized by finish(), the entries with
\* data_length > 0, in index order, are contiguous: the first is at offset 0
\* and each later one at the previous entry's data_offset + data_length.
C2_OffsetContiguity ==
    \A x \in IndexFiles : Contiguous(bands[x[1]].index[x[2]].file)

\* A finalized index of three entries: one byte, an empty file, two bytes
\* at offset 1.
C2_Witness ==
    \E x \in IndexFiles :
        LET files == bands[x[1]].index[x[2]].file
        IN /\ Len(files) = 3
           /\ files[1].data_length = {1} /\ files[1].data_offset = {0}
           /\ files[2].data_length = {0} /\ files[2].data_offset = {}
           /\ files[3].data_length = {2} /\ files[3].data_offset = {1}

\* The bytes of `data` from offset `off`, `len` of them or as many as there are.
Region(data, off, len) ==
    SubSeq(data, off + 1, IF off + len <= Len(data) THEN off + len ELSE Len(data))

\* An index and its data file agree: length and digest of the whole file,
\* and the digest of the region of every entry with content.
IndexMatchesData(index, data) ==
    /\ index.data_length = {Len(data)}
    /\ index.data_sha1 = {Sha(data)}
    /\ \A i \in 1..Len(index.file) :
          IntField(index.file[i].data_length) > 0 =>
             /\ index.file[i].data_offset # {}
             /\ index.file[i].data_sha1 =
                   {Sha(Region(data, Value(index.file[i].data_offset),
                               Value(index.file[i].data_length)))}

\* C3: for every finalized block (its index file is written), the index's
\* data_length is the length of the data file, its data_sha1 is the digest
\* of the whole data file, and every entry with content has the digest of
\* its region data[offset : offset+length].
C3_DigestLaw ==
    \A x \in IndexFiles :
        /\ x[2] \in DOMAIN bands[x[1]].data
        /\ IndexMatchesData(bands[x[1]].index[x[2]], bands[x[1]].data[x[2]])

\* A BlockWriter is Closed: finish() has returned on it.
Closed(wr) == wr.made /\ ~wr.open /\ wr.data_file.closed

BlockWriterCalls == {"begin", "store_file", "finish"}

\* C7: once finish() has returned on a BlockWriter, every further begin(),
\* store_file() or finish() on it is rejected with an error and leaves the
\* files of the band as they are.
C7_ClosedWriterRejects ==
    [][(Closed(blk[1]) /\ last'.op \in BlockWriterCalls)
          => (last'.err # "none" /\ bands' = bands)]_vars

\* The blocks of a band directory that have both files, d<N>.d and d<N>.i.
Pairs(dir) ==
    {n \in DOMAIN dir.data :
        data_file_name(n) \in BandListDir(dir) /\ index_file_name(n) \in BandListDir(dir)}

\* finish_band() has just returned on the BandWriter.
JustFinished == last.op = "finish_band" /\ last.err = "none"

WritersOf(b) == {w \in BlockWriterIds : blk[w].made /\ blk[w].band = b}

\* C5: within one band, once the BlockWriters obtained from create_block()
\* have each been finalized, the block numbers listed are "000000" ...
\* '%06d' % (k-1), dense from 0, and no number was used by two writers: k
\* writers account for k listed numbers.
C5_BlockNumbering ==
    \A b \in DOMAIN bands :
        (\A w \in WritersOf(b) : Closed(blk[w])) =>
            /\ list_blocks(bands[b]) =
                  [i \in 1..Len(list_blocks(bands[b])) |-> ZeroPad(6, i - 1)]
            /\ Cardinality({blk[w].block_number : w \in WritersOf(b)}) =
                  Cardinality(WritersOf(b))
            /\ Len(list_blocks(bands[b])) >= Cardinality(WritersOf(b))

\* C6: a finished band is immutable: once BAND-TAIL is written no call adds,
\* truncates or rewrites a file of the band directory.
C6_FinishedBandImmutable ==
    [][\A b \in DOMAIN bands : bands[b].tail # {} => bands'[b] = bands[b]]_vars

\* The block number the next create_block() of the BandWriter hands out.
NextNumber == next_block_number(bands[bw.band_number])

\* C8: begin() creates the data file exclusively: when d<N>.d already exists,
\* the begin() that create_block() runs for block N fails and leaves the
\* files of the band as they are.
C8_BeginExclusive ==
    [][(/\ last'.op = "create_block"
        /\ bw.band_number \in DOMAIN bands
        /\ NextNumber \in DOMAIN bands[bw.band_number].data)
          => (last'.err # "none" /\ bands' = bands)]_vars

\* C9: in every state of a BandWriter, is_finished() is true if and only if
\* the BAND-TAIL file of its band exists.
C9_WriterFinishedIffTail ==
    bw.made => (writer_is_finished <=> reader_is_finished(bw.band_number))

\* finish_band() returns on the BandWriter in this step.
FinishBandReturns == last'.op = "finish_band" /\ last'.err = "none" /\ bw.open

\* C10: a BandReader's is_finished() is false when the band directory is
\* made, turns true only as a finish_band() on that band returns, is true
\* once finish_band() has returned, and never turns false again.
C10_ReaderFinished ==
    [][\A b \in DOMAIN bands' :
          /\ b \notin DOMAIN bands => ~reader_is_finished(b)'
          /\ (~reader_is_finished(b) /\ reader_is_finished(b)')
                => (FinishBandReturns /\ bw.band_number = b)
          /\ (FinishBandReturns /\ bw.band_number = b) => reader_is_finished(b)'
          /\ reader_is_finished(b) => reader_is_finished(b)']_vars

\* A band that was started and finished, still finished after a later call.
C10_Witness ==
    \E b \in DOMAIN bands :
        /\ bands[b].head # {}
        /\ reader_is_finished(b)
        /\ last.op = "start_band"

\* Archive.open(path) is the call made in this step.
Opens(path) == last'.op = "open" /\ last'.path = path

\* The bytes of the header file at path, when open can read them.
ReadableHeader(path) ==
    IF root[path].exists /\ root[path].header # {}
    THEN {h.bytes : h \in {f \in root[path].header : f.readable}}
    ELSE {}

\* C11: Archive.open(P) right after Archive.create(P) succeeds; and open
\* fails with BadArchiveHeader, naming the header path, whenever the header
\* file holds bytes that do not parse as a header or a header whose magic is
\* not "dura backup archive".
C11_HeaderRoundTrip ==
    [][\A path \in ArchivePaths : Opens(path) =>
          /\ (last.op = "create" /\ last.err = "none" /\ last.path = path)
                => last'.err = "none"
          /\ \A bytes \in ReadableHeader(path) :
                (~ParseHeader(bytes).ok \/ ParseHeader(bytes).magic # HEADER_MAGIC)
                   => /\ last'.err = "BadArchiveHeader"
                      /\ last'.kwargs.header_path = path \o <<"/">> \o ARCHIVE_HEADER_NAME]_vars

\* open has just rejected a well-formed header of magic "black magic",
\* while the other path holds a header that does not parse.
C11_Witness ==
    /\ last.op = "open" /\ last.err = "BadArchiveHeader"
    /\ ReadableHeader(last.path) = {SerializeHeader(BlackMagic)}
    /\ \E path \in ArchivePaths : ReadableHeader(path) = {SomeGarbage}

\* C12: Archive.open on a path whose directory or whose header file does
\* not exist fails with NoSuchArchive and makes nothing on disk.
C12_OpenMissing ==
    [][\A path \in ArchivePaths :
          (Opens(path) /\ (~root[path].exists \/ root[path].header = {}))
             => (last'.err = "NoSuchArchive" /\ root' = root /\ bands' = bands)]_vars

\* open has just failed on a directory that exists and holds no header file.
C12_Witness ==
    /\ last.op = "open" /\ last.err = "NoSuchArchive"
    /\ root[last.path].exists
    /\ root[last.path].header = {}

\* The header file at path is there and cannot be read.
Unreadable(path) ==
    /\ root[path].exists
    /\ root[path].header # {}
    /\ \A f \in root[path].header : ~f.readable

\* C13 as stated: when the header file is present and cannot be read,
\* Archive.open fails with BadArchiveHeader.
C13_UnreadableIsBadHeader ==
    [][\A path \in ArchivePaths :
          (Opens(path) /\ Unreadable(path)) => last'.err = "BadArchiveHeader"]_vars

\* C13, amended: when the header file is present and cannot be read,
\* Archive.open fails with the IOError of the read itself, nothing wrapping
\* it, and the disk is left as it was.
C13_UnreadableIsIOError ==
    [][\A path \in ArchivePaths :
          (Opens(path) /\ Unreadable(path))
             => (last'.err = "IOError" /\ last'.kwargs.error = "EACCES" /\ root' = root)]_vars

\* open has just failed on an archive made by create whose header was chmod 0.
C13_Witness ==
    /\ last.op = "open" /\ last.err = "IOError"
    /\ Unreadable(last.path)
    /\ \A f \in root[last.path].header : f.bytes = make_archive_header_bytestring

\* C14: Archive.create on a path that exists fails with ArchiveExists and
\* leaves the directory as it is, writing no header there.
C14_CreateExisting ==
    [][\A path \in ArchivePaths :
          (last'.op = "create" /\ last'.path = path /\ root[path].exists)
             => (last'.err = "ArchiveExists" /\ root' = root)]_vars

\* create_band() returns in this step.
CreateBandReturns == last'.op = "create_band" /\ last'.err = "none"

\* C15 as stated: create_band() only allocates a number: it makes no
\* directory and no file, and a band directory appears on disk only in a
\* start_band() step.
C15_CreateBandAllocatesOnly ==
    [][/\ CreateBandReturns => bands' = bands
       /\ DOMAIN bands' # DOMAIN bands => last'.op = "start_band"]_vars

\* C15, amended: create_band() allocates the number one above the highest
\* existing one (0 if none) and makes the directory of that band on disk
\* before it returns, leaving the other bands as they are.
C15_CreateBandMakesDirectory ==
    [][CreateBandReturns =>
          LET b == ZeroPad(4, next_band_number)
          IN /\ b \notin DOMAIN bands
             /\ DOMAIN bands' = DOMAIN bands \cup {b}
             /\ \A c \in DOMAIN bands : bands'[c] = bands[c]]_vars

\* create_band() has just made band 0001 next to a band 0000 that a
\* BandWriter started.
C15_Witness ==
    /\ last.op = "create_band" /\ last.err = "none"
    /\ DOMAIN bands = {ZeroPad(4, 0), ZeroPad(4, 1)}
    /\ bands[ZeroPad(4, 0)].head # {}
    /\ bands[ZeroPad(4, 1)].head = {}

\* C16: right after create_band() returns, the new band's directory exists
\* and holds exactly BAND-HEAD, whose band_number is the band's canonical
\* number; the band is in list_bands() and is not finished.
C16_CreateBandWritesHead ==
    [][CreateBandReturns =>
          /\ DOMAIN bands' # DOMAIN bands
          /\ \A b \in DOMAIN bands' \ DOMAIN bands :
                /\ BandListDir(bands'[b]) = {head_name}
                /\ \A h \in bands'[b].head : h.band_number = b
                /\ \E i \in 1..Len(list_bands') : list_bands'[i] = b
                /\ ~reader_is_finished(b)']_vars

\* A backup run returns in this step.
BackupReturns == last'.op = "backup" /\ last'.err = "none"

\* One above the highest number among the band directories, 0 if none.
OneAboveMaximum ==
    IF DOMAIN bands = {} THEN 0
    ELSE 1 + CHOOSE m \in {IntVal(b) : b \in DOMAIN bands} :
                \A b \in DOMAIN bands : IntVal(b) <= m

C18_BlockRotation ==
    \A b \in DOMAIN bands :
        LET blocks == list_blocks(bands[b])
        IN /\ \A i \in 1..Len(blocks) :
                 LET entries == Len(bands[b].index[blocks[i]].file)
                 IN /\ entries <= FILES_PER_BLOCK
                    /\ i < Len(blocks) => entries = FILES_PER_BLOCK
           /\ \A t \in bands[b].tail : t.block_count = Len(blocks)

\* The source paths store_files makes an entry for.
Storable(file_names) ==
    SelectSeq(file_names,
              LAMBDA f : SourceTree[f].mode \in {"S_IFREG", "S_IFDIR", "S_IFLNK"})

\* The contents of the source files, one after the other.
RECURSIVE Contents(_)
Contents(file_names) ==
    IF Len(file_names) = 0 THEN <<>>
    ELSE (IF SourceTree[Head(file_names)].mode \in {"S_IFREG", "S_IFLNK"}
          THEN SourceTree[Head(file_names)].content ELSE <<>>)
         \o Contents(Tail(file_names))

\* The data files of a band directory one after the other, in the order
\* of the given block numbers.
RECURSIVE BandData(_, _)
BandData(dir, blocks) ==
    IF Len(blocks) = 0 THEN <<>>
    ELSE dir.data[Head(blocks)] \o BandData(dir, Tail(blocks))

\* The paths of the index entries of a band directory, block after block.
RECURSIVE BandPaths(_, _)
BandPaths(dir, blocks) ==
    IF Len(blocks) = 0 THEN <<>>
    ELSE [i \in 1..Len(dir.index[Head(blocks)].file) |->
             dir.index[Head(blocks)].file[i].path]
         \o BandPaths(dir, Tail(blocks))

\* C19: for the files ingested into a band, the band's data files taken in
\* ascending block-number order are the source contents in submission
\* order, and the index entries across the blocks list the paths in that
\* same order.
C19_IngestOrder ==
    (last.op = "backup" /\ last.err = "none") =>
        LET dir == bands[last.band]
            blocks == list_blocks(dir)
        IN /\ BandData(dir, blocks) = Contents(last.file_names)
           /\ BandPaths(dir, blocks) = Storable(last.file_names)

\* A run has stored a directory, two files, an empty file, a symlink and
\* skipped a device: five entries and the bytes of the three contents.
C19_Witness ==
    /\ last.op = "backup" /\ last.err = "none"
    /\ last.file_names = <<"dir", "hello", "empty", "link", "dev", "world">>
    /\ BandData(bands[last.band], list_blocks(bands[last.band])) = <<1, 2, 4, 5, 3>>
    /\ Len(BandPaths(bands[last.band], list_blocks(bands[last.band]))) = 5

\* The blocks of the archive whose data file no longer matches its index.
CorruptBlocks ==
    {x \in IndexFiles :
        x[2] \in DOMAIN bands[x[1]].data
        /\ ~IndexMatchesData(bands[x[1]].index[x[2]], bands[x[1]].data[x[2]])}

\* C20: the validator reports every discrepancy and continues: a validation
\* run over an archive ends without aborting and has a finding for each
\* corrupted block, and the check of one block ends without aborting and
\* has a finding when the block is corrupted.
C20_ValidatorReportsAll ==
    /\ last.op = "validate_archive" =>
          /\ last.err = "none"
          /\ Len(last.findings) >= Cardinality(CorruptBlocks)
    /\ last.op = "check_block" =>
          /\ last.err = "none"
          /\ <<last.band, last.block>> \in CorruptBlocks => Len(last.findings) > 0

\* The findings of a validation call that are about a block as a whole, and
\* those that are about one entry of a block.
BlockFindings(findings) ==
    SelectSeq(findings, LAMBDA f : f \in {"block data length check: False",
                                          "block data sha1 check: False"})

EntryFindings(findings) ==
    SelectSeq(findings, LAMBDA f : f \notin {"block data length check: False",
                                             "block data sha1 check: False"})

\* C21: when a byte of a finalized block's data file is altered after the
\* backup, a validation of the archive ends without a fatal error and has
\* reported a block-scope integrity failure and an entry-scope integrity
\* failure for the entry whose region holds the byte, and Archive.open on
\* the archive still succeeds.
C21_AlteredByteReported ==
    (last.op \in {"validate_archive", "check_block"}
     /\ (last.op = "check_block" => <<last.band, last.block>> \in CorruptBlocks)
     /\ CorruptBlocks # {})
        => /\ last.err = "none"
           /\ Len(BlockFindings(last.findings)) > 0
           /\ Len(EntryFindings(last.findings)) > 0
           /\ check_header(archive_path).err = "none"

\* The band directories that hold no BAND-HEAD.
Headless == {b \in DOMAIN bands : bands[b].head = {}}

\* The members of a sequence.
Range(seq) == {seq[i] : i \in 1..Len(seq)}

\* C22: for a band directory that exists without a BAND-HEAD, Archive.open
\* succeeds, list_bands() includes the band, open_band_reader succeeds,
\* is_finished() returns false, and read_head() gives a MissingRecord
\* failure: no record and no other error.
C22_HeadlessBand ==
    \A b \in Headless :
        /\ check_header(archive_path).err = "none"
        /\ b \in Range(list_bands)
        /\ (last.op = "open_band_reader" /\ last.band = b) => last.err = "none"
        /\ (last.op = "is_finished" /\ last.band = b) => last.returned = {FALSE}
        /\ (last.op = "read_head" /\ last.band = b) =>
              (last.err = "MissingRecord" /\ last.head = {})

\* The comparison of two lists of integers, lexicographic: -1 when x is a
\* proper prefix of y or is lower at the first place they differ.
LexCmp(x, y) ==
    IF x = y THEN 0
    ELSE IF \E k \in 1..Len(y) :
               /\ \A j \in 1..(k - 1) : j <= Len(x) /\ x[j] = y[j]
               /\ (k > Len(x) \/ x[k] < y[k])
         THEN -1
         ELSE 1

\* C23: cmp_band_numbers(a, b) on band numbers of hyphen-separated integer
\* fields is -1, 0 or +1 as the lexicographic comparison of the two integer
\* lists is, leading zeros not counting and fields compared as numbers; and
\* sorted() with it gives the ascending list whatever the input order.
C23_CmpBandNumbers ==
    /\ last.op = "cmp_band_numbers" =>
          /\ last.result \in {-1, 0, 1}
          /\ last.result = LexCmp(last.a.fields, last.b.fields)
    /\ last.op = "sorted" =>
          last.result = [i \in 1..Len(SortedInputs) |-> NumberOf(SortedInputs[i])]

\* "0900-0001" and "900-1" have just compared equal.
C23_Witness ==
    /\ last.op = "cmp_band_numbers"
    /\ last.n1 = <<"0", "9", "0", "0", "-", "0", "0", "0", "1">>
    /\ last.n2 = <<"9", "0", "0", "-", "1">>
    /\ last.result = 0

\* C24: in every archive state list_bands() is the existing band numbers in
\* strictly ascending order of number, and last_band() is the last element
\* of that list, or none when the archive has no bands.
C24_ListBandsAscending ==
    LET existing_bands == list_bands
    IN /\ Range(existing_bands) = DOMAIN bands
       /\ \A i \in 1..(Len(existing_bands) - 1) :
             IntVal(existing_bands[i]) < IntVal(existing_bands[i + 1])
       /\ last_band = IF DOMAIN bands = {} THEN {}
                      ELSE {existing_bands[Len(existing_bands)]}
       /\ \A b \in DOMAIN bands : \A l \in last_band : IntVal(b) <= IntVal(l)

\* Bands 0001 and 0002 were there when a BandWriter made band 0000: the
\* band made last is listed first.
C24_Witness ==
    /\ last.op = "start_band" /\ last.err = "none"
    /\ bw.band_number = ZeroPad(4, 0)
    /\ list_bands = <<ZeroPad(4, 0), ZeroPad(4, 1), ZeroPad(4, 2)>>
    /\ last_band = {ZeroPad(4, 2)}

\* C25: create_band() never returns a band whose number belongs to a
\* directory already in the archive, finished or not: it succeeds, the one
\* directory it makes is new and numbered one above the highest there is,
\* a partial band K being followed by K+1, and the files of the bands that
\* were there are not modified.
C25_NoPartialReuse ==
    [][last'.op = "create_band" =>
          /\ last'.err = "none"
          /\ Cardinality(DOMAIN bands' \ DOMAIN bands) = 1
          /\ DOMAIN bands \subseteq DOMAIN bands'
          /\ \A K \in last_band :
                DOMAIN bands' \ DOMAIN bands = {ZeroPad(4, IntVal(K) + 1)}
          /\ \A b \in DOMAIN bands : bands'[b] = bands[b]]_vars

\* create_band has just made band 0002 next to band 0001, which has its
\* head and no tail.
C25_Witness ==
    /\ last.op = "create_band" /\ last.err = "none"
    /\ DOMAIN bands = {ZeroPad(4, 1), ZeroPad(4, 2)}
    /\ bands[ZeroPad(4, 1)].head # {} /\ bands[ZeroPad(4, 1)].tail = {}
    /\ bands[ZeroPad(4, 2)] = EmptyDir

\* No BlockWriter holds the data file of block n of band b open.
ClosedToAppends(b, n) ==
    \A w \in BlockWriterIds :
        (blk[w].made /\ blk[w].band = b /\ blk[w].block_number = n)
            => blk[w].data_file.closed

\* C26: at every point of a write, a failure between any two steps
\* included, if the index file d<N>.i of a block exists then its data file
\* d<N>.d exists, is closed to further appends and has exactly
\* index.data_length bytes: an interrupted block is a data file without an
\* index, never an index without or ahead of its data.
C26_IndexAfterData ==
    \A x \in IndexFiles :
        /\ x[2] \in DOMAIN bands[x[1]].data
        /\ ClosedToAppends(x[1], x[2])
        /\ Len(bands[x[1]].data[x[2]]) = IntField(bands[x[1]].index[x[2]].data_length)

\* C28: when a step of an ingestion run fails (reading a source, storing a
\* file, the block's finish, finish_band's own write), no BAND-TAIL exists
\* for the band afterwards and the writer does not report the band as
\* finished.
C28_FailedRunUnfinished ==
    (last.op = "backup" /\ last.err # "none") =>
        /\ ~reader_is_finished(last.band)
        /\ bw.band_number = last.band
        /\ ~writer_is_finished

\* Band b has its BAND-HEAD and an index file for every block number
\* 0 .. block_count - 1 of the tail given.
CompleteFor(b, tail) ==
    /\ bands[b].head # {}
    /\ \A k \in 0..(tail.block_count - 1) : ZeroPad(6, k) \in DOMAIN bands[b].index

StartBandFailed == last.op = "start_band" /\ last.err = "OSError"

\* C29: when start_band() fails because the band directory already exists,
\* the writer does not enter the Open state and the directory is left as it
\* was; a finish_band() that follows on that writer is rejected and writes
\* no BAND-TAIL into the band.
C29_FailedStartNotOpen ==
    /\ [](StartBandFailed => ~bw.open)
    /\ [][(last'.op = "start_band" /\ last'.err = "OSError") => bands' = bands]_vars
    /\ [][(StartBandFailed /\ last'.op = "finish_band")
            => (last'.err # "none" /\ bands' = bands)]_vars

\* The name after the prefix is a band number in canonical form.
Canonical(n) == IntOk(n) /\ n = ZeroPad(4, IntVal(n))

\* C30: list_bands() returns only the direct children of the archive named
\* 'b' followed by a band number in canonical form; every other child is
\* ignored: it is not in the result and makes neither list_bands() nor
\* create_band() fail.
C30_ForeignChildrenIgnored ==
    /\ last.op = "list_bands" =>
          /\ last.err = "none"
          /\ Range(last.result) = {b \in DOMAIN bands : Canonical(b)}
    /\ last.op = "create_band" => last.err = "none"

\* C31: read_record on a path that cannot be opened or read, a missing file
\* above all, returns a failure value without raising, and on bytes that
\* fail deserialization raises BadRecord; in neither case is a record
\* returned.
C31_ReadRecord ==
    last.op = "read_proto_from_file" =>
        /\ ReadableHeader(last.path) = {} =>
              (last.err = "none" /\ last.returned = {})
        /\ \A bytes \in ReadableHeader(last.path) :
              ~ParseHeader(bytes).ok =>
                 (last.err = "BadRecord" /\ last.returned = {})

\* C32: write_record never leaves a partially written record behind: when
\* it returns with an error the file is absent or unchanged or holds the
\* complete serialized record, and when it returns successfully the file
\* holds the complete record.
C32_WriteRecord ==
    [][last'.op = "write_proto_to_file" =>
          IF last'.err = "none"
          THEN root'[last'.path].header = {FileOf(last'.proto_bytes)}
          ELSE \/ root'[last'.path].header = root[last'.path].header
               \/ root'[last'.path].header = {FileOf(last'.proto_bytes)}]_vars

\* The bytes of the data file that an index entry points at.
EntryData(data, entry) ==
    SubSeq(data, IntField(entry.data_offset) + 1,
           IntField(entry.data_offset) + IntField(entry.data_length))

\* C33: ingestion dispatches on the lstat file type. In the block a
\* successful run wrote, a directory has an entry with path and type only
\* and adds no bytes to the data file; an empty regular file has an entry
\* with data_length 0 and neither data_offset nor data_sha1; a symlink has a
\* SYMLINK entry whose content in the data file is the link target; a file
\* of any other type has no entry and adds no bytes, and the paths after it
\* are still stored.
C33_DispatchOnType ==
    (last.op = "backup" /\ last.err = "none") =>
        LET block_index == bands[last.band].index[ZeroPad(6, 0)]
            data == bands[last.band].data[ZeroPad(6, 0)]
            stored_names == SelectSeq(last.file_names,
                LAMBDA f : SourceTree[f].mode \in {"S_IFREG", "S_IFDIR", "S_IFLNK"})
        IN /\ Len(block_index.file) = Len(stored_names)
           /\ Len(data) = Len(Contents(last.file_names))
           /\ \A i \in 1..Len(block_index.file) :
                 LET entry == block_index.file[i]
                     st == SourceTree[stored_names[i]]
                 IN /\ entry.path = stored_names[i]
                    /\ st.mode = "S_IFDIR" =>
                          /\ entry.file_type = DIRECTORY
                          /\ entry.data_length = {}
                          /\ entry.data_offset = {}
                          /\ entry.data_sha1 = {}
                    /\ (st.mode = "S_IFREG" /\ st.content = <<>>) =>
                          /\ entry.file_type = REGULAR
                          /\ entry.data_length = {0}
                          /\ entry.data_offset = {}
                          /\ entry.data_sha1 = {}
                    /\ st.mode = "S_IFLNK" =>
                          /\ entry.file_type = SYMLINK
                          /\ entry.data_length = {Len(st.content)}
                          /\ EntryData(data, entry) = st.content

\* A run was given a directory, a file, an empty file, a symlink, a device
\* and one more file: the block has a bare DIRECTORY entry, an entry of
\* length 0 without offset, a SYMLINK entry at offset 2, no entry for the
\* device, and the file after the device as its last entry.
C33_Witness ==
    /\ last.op = "backup" /\ last.err = "none"
    /\ last.file_names = <<"dir", "hello", "empty", "link", "dev", "world">>
    /\ LET file == bands[last.band].index[ZeroPad(6, 0)].file
       IN /\ Len(file) = 5
          /\ file[1] = NewEntry("dir", DIRECTORY)
          /\ file[3].data_length = {0} /\ file[3].data_offset = {}
          /\ file[4].file_type = SYMLINK /\ file[4].data_offset = {2}
          /\ file[5].path = "world"

====
